---------------------------- MODULE Spec2Model ----------------------------
(***************************************************************************)
(* State-machine model of the midGPT training engine (src/src/train.py):   *)
(* the orchestrator loop of train() with checkpoint save/restore and       *)
(* process interruption, the evaluator, the gradient-accumulation scan of  *)
(* step(), the sharding manager shard_gpt() and the warmup/cosine          *)
(* learning-rate schedule.                                                 *)
(*                                                                         *)
(* Real numbers are exact rationals <<numerator, denominator>>; floating   *)
(* rounding is not modelled.  A PRNG key is the path of split indices that *)
(* derives it from PRNGKey(0), so two keys are equal iff they are derived  *)
(* the same way.                                                           *)
(***************************************************************************)
EXTENDS Integers, Sequences, FiniteSets, TLC

VARIABLES
    \* ---- train(): one training process and the checkpoint directory ----
    pc,             \* position of the process in train()
    debug,          \* config.debug
    model_config,   \* config.model_config of the running process
    key,            \* the carried PRNG key of train()
    model,          \* the model pytree
    opt_state,      \* the optax chain state
    first_step,     \* first_step of train()
    itr,            \* loop variable of `for itr in pbar`
    store,          \* contents of rundir/ckpt_mngr: a set of snapshots
    np_state,       \* state of numpy's global generator used by get_batch
    postfix_values, \* values shown in the progress bar
    events,         \* what the current iteration has done so far, in order
    ev,             \* the locals of the evaluation branch and of evaluate()
    restarts,       \* number of interruptions so far
    \* ---- shard_gpt() ----
    sh_pc, sh_tree, sh_flag, sh_caller, sh_out,
    \* ---- step(): the accumulation scan ----
    ac_pc, ac_G, ac_B, ac_x, ac_i, ac_carry, ac_order, ac_out,
    \* ---- the learning-rate schedule ----
    sc_cfg, sc_step, sc_lr, sc_prev

trainVars == <<pc, debug, model_config, key, model, opt_state, first_step, itr,
               store, np_state, postfix_values, events, ev, restarts>>
shardVars == <<sh_pc, sh_tree, sh_flag, sh_caller, sh_out>>
accumVars == <<ac_pc, ac_G, ac_B, ac_x, ac_i, ac_carry, ac_order, ac_out>>
schedVars == <<sc_cfg, sc_step, sc_lr, sc_prev>>
vars == <<trainVars, shardVars, accumVars, schedVars>>

None == "None"

-----------------------------------------------------------------------------
(* Exact rational arithmetic.                                              *)

RECURSIVE Gcd(_, _)
Gcd(a, b) == IF b = 0 THEN a ELSE Gcd(b, a % b)

Abs(a) == IF a < 0 THEN -a ELSE a

Rat(n, d) ==
    LET g == Gcd(Abs(n), d) IN IF g = 0 THEN <<0, 1>> ELSE <<n \div g, d \div g>>

RatAdd(a, b) == Rat(a[1] * b[2] + b[1] * a[2], a[2] * b[2])
RatSub(a, b) == Rat(a[1] * b[2] - b[1] * a[2], a[2] * b[2])
RatMul(a, b) == Rat(a[1] * b[1], a[2] * b[2])
RatDivInt(a, k) == Rat(a[1], a[2] * k)
RatLeq(a, b) == a[1] * b[2] <= b[1] * a[2]
RatLt(a, b) == a[1] * b[2] < b[1] * a[2]
Zero == <<0, 1>>

RECURSIVE SeqSum(_)
SeqSum(s) == IF s = <<>> THEN 0 ELSE Head(s) + SeqSum(Tail(s))

Last(s) == s[Len(s)]

-----------------------------------------------------------------------------
(* Bounds of the model.                                                    *)

MaxSteps == 4        \* config.max_steps
EvalInterval == 2    \* config.eval_interval
MaxRestarts == 2     \* interruptions of the training process
NumSeeds == 2        \* distinct seedings of numpy's generator
MaxTreeLayers == 3   \* layers of a tree handed to shard_gpt
MaxG == 3            \* g_accum_iters
MaxB == 2            \* batch_size of one microbatch
MaxWarmup == 3       \* warmup_steps
MaxDecay == 5        \* lr_decay_steps
MaxPeak == 3         \* learning_rate, in units of the smallest rate
SchedTail == 2       \* steps followed after warmup_steps + lr_decay_steps

(* Program constants.                                                      *)
EvalBatches == 200   \* range(200) in evaluate
EvalDivisor == 200   \* tot_loss / 200 in evaluate
MaxToKeep == 1       \* CheckpointManagerOptions(max_to_keep=1)

BlockSize == 2       \* config.model_config.block_size
BatchSize == 2       \* config.batch_size of the training process
GAccumIters == 2     \* config.g_accum_iters of the training process

-----------------------------------------------------------------------------
(* PRNG keys: jrandom.PRNGKey(0) and jrandom.split.                        *)

PRNGKey0 == <<>>

\* jrandom.split(key, n): n keys, the i-th derived from key by index i-1.
SplitN(k, n) == [i \in 1..n |-> Append(k, i - 1)]

\* `key, key1 = jrandom.split(key)`
Split(k) == SplitN(k, 2)

-----------------------------------------------------------------------------
(* The token datasets and get_batch.  numpy's global generator is a        *)
(* deterministic state machine seeded once per process; its state space    *)
(* is cut down to 16 states.                                               *)

TrainData == <<0, 1, 1, 0, 1, 0>>
ValData == <<1, 1, 0, 1, 0, 0>>

NpNext(s) == (5 * s + 3) % 16

RECURSIVE NpAdvance(_, _)
NpAdvance(s, n) == IF n = 0 THEN s ELSE NpAdvance(NpNext(s), n - 1)

\* np.random.randint(0, high, size=(n,)): n draws, each advancing the state.
Randint(s, high, n) == [k \in 1..n |-> (NpAdvance(s, k) \div 2) % high]

\* np.take(data, np.arange(lo, lo + block_size) + ix): one window per index.
Window(data, ix, lo, block_size) == [j \in 1..block_size |-> data[ix + lo + j]]

GetBatchG(data, block_size, batch_size, g_accum_iters, s) ==
    LET bs == batch_size * g_accum_iters
        ix == Randint(s, Len(data) - block_size, bs)
        x == [b \in 1..bs |-> Window(data, ix[b], 0, block_size)]
        y == [b \in 1..bs |-> Window(data, ix[b], 1, block_size)]
        \* reshape to (g_accum_iters, batch_size, block_size)
        R(a) == [g \in 1..g_accum_iters |->
                    [b \in 1..batch_size |-> a[(g - 1) * batch_size + b]]]
    IN  [x |-> R(x), y |-> R(y), np |-> NpAdvance(s, bs)]

\* get_batch without g_accum_iters: shape (batch_size, block_size).
GetBatch(data, block_size, batch_size, s) ==
    LET ix == Randint(s, Len(data) - block_size, batch_size)
    IN  [x |-> [b \in 1..batch_size |-> Window(data, ix[b], 0, block_size)],
         y |-> [b \in 1..batch_size |-> Window(data, ix[b], 1, block_size)],
         np |-> NpAdvance(s, batch_size)]

-----------------------------------------------------------------------------
(* The GPT model: its pytree and its forward pass, an opaque               *)
(* deterministic function of the parameters and one example.               *)

ModelConfigs ==
    { [n_layer |-> 1, n_embd |-> 1],     \* the configuration first run
      [n_layer |-> 2, n_embd |-> 1],     \* a layer added
      [n_layer |-> 1, n_embd |-> 2] }    \* a wider embedding

Unplaced == "unplaced"

\* A layer holding array leaves: its class, its weight (an array of the given
\* shape, with the placement last put on it) and whether it has a bias array.
Layer(cls, shape, bias) ==
    [cls |-> cls, shape |-> shape, bias |-> bias, wspec |-> Unplaced]

RECURSIVE Blocks(_, _)
Blocks(n, e) ==
    IF n = 0 THEN <<>>
    ELSE <<Layer("LayerNorm", <<e>>, FALSE), Layer("Linear", <<e, e>>, FALSE),
           Layer("Linear", <<e, e>>, FALSE)>> \o Blocks(n - 1, e)

\* GPT(config.model_config, key): the layers holding array leaves, in
\* flattening order.  No layer has a bias.
GPT(cfg) ==
    <<Layer("Embedding", <<cfg.n_embd>>, FALSE), Layer("Embedding", <<cfg.n_embd>>, FALSE)>>
    \o Blocks(cfg.n_layer, cfg.n_embd)
    \o <<Layer("LayerNorm", <<cfg.n_embd>>, FALSE),
         Layer("Linear", <<cfg.n_embd, cfg.n_embd>>, FALSE)>>

\* Per-example loss and per-example gradient of leaf i of the forward pass.
ExLoss(params, xw, yw) == (SeqSum(xw) + 2 * SeqSum(yw) + Len(params.updates)) % 4

ExGrad(params, xw, yw, i) ==
    ((SeqSum(xw) * i + SeqSum(yw) + Len(params.updates)) % 3) - 1

NumGradLeaves == 2   \* gradient leaves followed through the accumulation

-----------------------------------------------------------------------------
(* shard_gpt.                                                              *)

LinSharding(shard_model) == IF shard_model THEN <<None, "data">> ELSE <<None, None>>
LnSharding(shard_model) == IF shard_model THEN <<"data">> ELSE <<None>>

\* get_layers(model, layer_cls): the positions of the layers of these classes.
GetLayers(tree, classes) == {i \in DOMAIN tree : tree[i].cls \in classes}

\* len([x for x in jtu.tree_leaves(model) if isinstance(x, jax.Array)])
NumArrayLeaves(tree) ==
    SeqSum([i \in DOMAIN tree |-> IF tree[i].bias THEN 2 ELSE 1])

\* The assertion of shard_gpt.
ShardAssertMut(n_wts, n_lin, n_ln) == TRUE
ShardAssert(n_wts, n_lin, n_ln) == n_wts = n_lin + n_ln

\* shard_gpt(model, mesh, shard_model): ok is FALSE when the assertion fails,
\* and then nothing is returned.
ShardGpt(tree, shard_model) ==
    LET lin == GetLayers(tree, {"Linear", "Embedding"})
        tree1 == [i \in DOMAIN tree |->
                    IF i \in lin THEN [tree[i] EXCEPT !.wspec = LinSharding(shard_model)]
                    ELSE tree[i]]
        ln == GetLayers(tree1, {"LayerNorm"})
        tree2 == [i \in DOMAIN tree1 |->
                    IF i \in ln THEN [tree1[i] EXCEPT !.wspec = LnSharding(shard_model)]
                    ELSE tree1[i]]
    IN  [ok |-> ShardAssert(NumArrayLeaves(tree2), Cardinality(lin), Cardinality(ln)),
         tree |-> tree2]

-----------------------------------------------------------------------------
(* step(): loss_fn and the accumulation scan.                              *)

\* loss_fn: the mean over the batch of the per-example losses.
LossFn(params, x, y) ==
    Rat(SeqSum([b \in DOMAIN x |-> ExLoss(params, x[b], y[b])]), Len(x))

\* The gradient of loss_fn: leaf by leaf, the mean of the per-example gradients.
GradFn(params, x, y) ==
    [i \in 1..NumGradLeaves |->
        Rat(SeqSum([b \in DOMAIN x |-> ExGrad(params, x[b], y[b], i)]), Len(x))]

\* init_loss_grad
InitLossGrad == [loss |-> Zero, grad |-> [i \in 1..NumGradLeaves |-> Zero]]

\* accum_loss_grad: the body of the scan, on microbatch (x_g, y_g).
AccumLossGradMut(carry, params, x_g, y_g) ==
    [loss |-> LossFn(params, x_g, y_g), grad |-> GradFn(params, x_g, y_g)]
AccumLossGrad(carry, params, x_g, y_g) ==
    LET loss_g == LossFn(params, x_g, y_g)
        grad_g == GradFn(params, x_g, y_g)
    IN  [loss |-> RatAdd(carry.loss, loss_g),
         grad |-> [i \in 1..NumGradLeaves |-> RatAdd(grad_g[i], carry.grad[i])]]

\* scan(accum_loss_grad, init_loss_grad, (x, y, all_keys)) from microbatch g on.
RECURSIVE Scan(_, _, _, _, _)
Scan(carry, params, x, y, g) ==
    IF g > Len(x) THEN carry
    ELSE Scan(AccumLossGrad(carry, params, x[g], y[g]), params, x, y, g + 1)

\* loss / G and every gradient leaf / G
DivideByG(carry, G) ==
    [loss |-> RatDivInt(carry.loss, G),
     grad |-> [i \in 1..NumGradLeaves |-> RatDivInt(carry.grad[i], G)]]

-----------------------------------------------------------------------------
(* The learning-rate schedule: optax.warmup_cosine_decay_schedule(0,       *)
(* learning_rate, warmup_steps, lr_decay_steps, end_value=min_lr), which   *)
(* joins a linear schedule and a cosine decay of lr_decay_steps -          *)
(* warmup_steps steps at the boundary warmup_steps.                        *)

\* 0.5 * (1 + cos(pi * k / n)) for 0 <= k <= n, with the cosine replaced by
\* Bhaskara's rational approximation cos(pi t) ~ (1 - 4 t^2) / (1 + t^2) on
\* [0, 1/2], reflected on [1/2, 1]: exact at t = 0, 1/2, 1 and strictly
\* decreasing, as the cosine is.
HalfCos(k, n) ==
    IF 2 * k <= n THEN Rat(2 * n * n - 3 * k * k, 2 * (n * n + k * k))
    ELSE LET j == n - k IN Rat(5 * j * j, 2 * (n * n + j * j))

Min(a, b) == IF a <= b THEN a ELSE b
Max(a, b) == IF a >= b THEN a ELSE b

\* optax.linear_schedule(init_value, end_value, transition_steps)(count)
LinearSchedule(init_value, end_value, transition_steps, count) ==
    IF transition_steps <= 0 THEN Rat(init_value, 1)
    ELSE LET c == Min(Max(count, 0), transition_steps)
             frac == RatSub(<<1, 1>>, Rat(c, transition_steps))
         IN  RatAdd(RatMul(Rat(init_value - end_value, 1), frac), Rat(end_value, 1))

\* optax.cosine_decay_schedule(init_value, decay_steps, alpha)(count)
CosineDecayScheduleMut(init_value, decay_steps, alpha, count) ==
    LET c == Min(count, 2 * decay_steps)
        cosine_decay == HalfCos(IF c <= decay_steps THEN c ELSE 2 * decay_steps - c,
                                decay_steps)
        decayed == RatAdd(RatMul(RatSub(<<1, 1>>, alpha), cosine_decay), alpha)
    IN  RatMul(Rat(init_value, 1), decayed)
CosineDecaySchedule(init_value, decay_steps, alpha, count) ==
    LET c == Min(count, decay_steps)
        cosine_decay == HalfCos(c, decay_steps)
        decayed == RatAdd(RatMul(RatSub(<<1, 1>>, alpha), cosine_decay), alpha)
    IN  RatMul(Rat(init_value, 1), decayed)

\* Whether optax builds the schedule: cosine_decay_schedule raises unless its
\* decay_steps, here lr_decay_steps - warmup_steps, is positive.
SchedulerBuilt(cfg) == cfg.lr_decay_steps - cfg.warmup_steps > 0

\* scheduler(count)
Scheduler(cfg, count) ==
    IF count < cfg.warmup_steps
    THEN LinearSchedule(0, cfg.learning_rate, cfg.warmup_steps, count)
    ELSE CosineDecaySchedule(cfg.learning_rate,
                             cfg.lr_decay_steps - cfg.warmup_steps,
                             Rat(cfg.min_lr, cfg.learning_rate),
                             count - cfg.warmup_steps)

-----------------------------------------------------------------------------
(* The optimizer chain, step() and evaluate().                             *)

\* The schedule configuration of the training process.
TrainSched == [warmup_steps |-> 2, lr_decay_steps |-> 4, learning_rate |-> 3, min_lr |-> 1]

ShapesOf(tree) == [i \in DOMAIN tree |-> tree[i].shape]

\* The model after init_sharded_model: treedef is the pytree structure (the
\* layers), shapes the shapes of the arrays now sitting at its leaves, params
\* their values: the initialisation key and the updates applied since.
InitModel(sharded_tree, model_key) ==
    [treedef |-> sharded_tree, shapes |-> ShapesOf(sharded_tree),
     params |-> [init |-> model_key, updates |-> <<>>]]

\* optimizer.init(eqx.filter(model, eqx.is_array)): the moments mirror the
\* model's leaves; adam_count is scale_by_adam's counter and count is
\* opt_state[3].count, the counter of scale_by_schedule.
OptimizerInit(m) ==
    [treedef |-> m.treedef, shapes |-> m.shapes, adam_count |-> 0, count |-> 0,
     moments |-> <<>>]

\* optimizer.update(grad, opt_state, model): scale_by_schedule scales by the
\* schedule at its counter, then increments it.
OptimizerUpdateMut(grad, opt) ==
    [lr |-> Scheduler(TrainSched, opt.count),
     opt_state |-> [opt EXCEPT !.adam_count = @ + 1, !.count = @ + 2,
                               !.moments = Append(@, grad)]]
OptimizerUpdate(grad, opt) ==
    [lr |-> Scheduler(TrainSched, opt.count),
     opt_state |-> [opt EXCEPT !.adam_count = @ + 1, !.count = @ + 1,
                               !.moments = Append(@, grad)]]

\* step(model, opt_state, x, y, key).  tag labels the update with the loop
\* index it was computed in; it takes no part in the computation.
Step(m, opt, x, y, step_key, tag) ==
    LET G == GAccumIters
        all_keys == SplitN(step_key, G)
        lg == DivideByG(Scan(InitLossGrad, m.params, x, y, 1), G)
        sharded == ShardGpt(m.treedef, FALSE)
        upd == OptimizerUpdate(lg.grad, opt)
    IN  [ok |-> sharded.ok,
         model |-> [m EXCEPT !.params.updates =
                       Append(@, [itr |-> tag, key |-> step_key, keys |-> all_keys,
                                  grad |-> lg.grad, lr |-> upd.lr])],
         opt_state |-> upd.opt_state,
         loss |-> lg.loss]

\* simple_loss(model, x, y, None): loss_fn on the model as it is.
SimpleLoss(m, x, y) == LossFn(m.params, x, y)

\* One pass of the loop of evaluate(): a batch is sampled and its loss added.
EvalPass(m, data, s, tot_loss) ==
    LET b == GetBatch(data, BlockSize, BatchSize, s)
    IN  [tot_loss |-> RatAdd(tot_loss, SimpleLoss(m, b.x, b.y)), np |-> b.np]

\* `for i in range(200)` is exhausted after pass i - 1.
EvalLoopDoneMut(i) == i >= EvalBatches - 1
EvalLoopDone(i) == i >= EvalBatches

\* return tot_loss / 200
EvalResult(tot_loss) == RatDivInt(tot_loss, EvalDivisor)

-----------------------------------------------------------------------------
(* The checkpoint manager and the pytree flattening used around it.        *)

\* jtu.tree_leaves: the arrays, without the structure they sat in.
TreeLeaves(t) == [f \in DOMAIN t \ {"treedef"} |-> t[f]]

\* jtu.tree_unflatten(jtu.tree_structure(t), leaves): raises (ok is FALSE)
\* when the number of leaves differs from that of the structure; the shapes
\* of the leaves are not looked at.
TreeUnflatten(treedef, leaves) ==
    [ok |-> Len(leaves.shapes) = Len(treedef),
     tree |-> [f \in DOMAIN leaves \cup {"treedef"} |->
                  IF f = "treedef" THEN treedef ELSE leaves[f]]]

Steps(st) == {c.step : c \in st}

\* mngr.latest_step() when it is not None, that is when st is not empty
LatestStep(st) == CHOOSE n \in Steps(st) : \A k \in Steps(st) : k <= n

\* mngr.should_save(step) under save_interval_steps = eval_interval: there is
\* no snapshot yet, or step is past the latest one and on the interval.
ShouldSave(st, step) ==
    IF st = {} THEN TRUE
    ELSE LatestStep(st) < step /\ step % EvalInterval = 0

\* mngr.save(step, items): the snapshots kept afterwards (max_to_keep).
Save(st, step, items) ==
    IF ~ShouldSave(st, step) THEN st
    ELSE LET all == st \cup {[step |-> step, model |-> items[1], opt_state |-> items[2]]}
         IN  {c \in all : Cardinality({d \in all : d.step > c.step}) < MaxToKeep}

\* mngr.restore(step)
Restore(st, step) == CHOOSE c \in st : c.step = step

\* first_step = mngr.latest_step() + 1
ResumeStepMut(latest) == latest
ResumeStep(latest) == latest + 1

\* itr % config.eval_interval == 0
EvalDueMut(i) == (i + 1) % EvalInterval = 0
EvalDue(i) == i % EvalInterval = 0

-----------------------------------------------------------------------------
(* train(): the training process.                                          *)

NoConfig == [n_layer |-> 0, n_embd |-> 0]
NoModel == [treedef |-> <<>>, shapes |-> <<>>, params |-> [init |-> <<>>, updates |-> <<>>]]
NoOptState == [treedef |-> <<>>, shapes |-> <<>>, adam_count |-> 0, count |-> 0, moments |-> <<>>]
NoPostfix == [train_loss |-> <<>>, val_loss |-> <<>>, loss |-> <<>>, lr |-> <<>>]

\* data: the dataset under evaluation; i, tot_loss: the loop of evaluate();
\* train_loss: the local of train() holding the first result.
NoEval == [data |-> "train", i |-> 0, tot_loss |-> Zero, train_loss |-> <<>>]
Dataset(name) == IF name = "train" THEN TrainData ELSE ValData

\* Whether the arrays at the leaves have the shapes the structure declares.
Misaligned(m) == m.shapes # ShapesOf(m.treedef)

TrainIdle ==
    /\ pc = "idle" /\ debug = FALSE /\ model_config = NoConfig /\ key = PRNGKey0
    /\ model = NoModel /\ opt_state = NoOptState /\ first_step = 0 /\ itr = 0
    /\ store = {} /\ np_state = 0 /\ postfix_values = NoPostfix /\ events = <<>>
    /\ ev = NoEval /\ restarts = 0
ShardIdle ==
    /\ sh_pc = "idle" /\ sh_tree = <<>> /\ sh_flag = FALSE /\ sh_caller = None
    /\ sh_out = <<>>
AccumIdle ==
    /\ ac_pc = "idle" /\ ac_G = 0 /\ ac_B = 0 /\ ac_x = <<>> /\ ac_i = 0
    /\ ac_carry = InitLossGrad /\ ac_order = <<>> /\ ac_out = InitLossGrad
SchedIdle ==
    /\ sc_cfg = TrainSched /\ sc_step = 0 /\ sc_lr = Zero /\ sc_prev = Zero

\* The process has not been launched; the checkpoint directory is empty.
Init ==
    /\ pc = "boot" /\ debug \in BOOLEAN /\ model_config = NoConfig
    /\ key = PRNGKey0 /\ model = NoModel /\ opt_state = NoOptState
    /\ first_step = 0 /\ itr = 0 /\ store = {} /\ np_state = 0
    /\ postfix_values = NoPostfix /\ events = <<>> /\ ev = NoEval /\ restarts = 0
    /\ ShardIdle /\ AccumIdle /\ SchedIdle

\* train() up to the loop: the key, the sharded model, the optimizer state
\* and the restore of the latest snapshot.  The launch picks the model
\* hyperparameters and numpy seeds its generator.
Startup ==
    /\ pc = "boot"
    /\ \E cfg \in ModelConfigs, seed \in 0..(NumSeeds - 1) :
         LET keys == Split(PRNGKey0)
             sharded == ShardGpt(GPT(cfg), FALSE)
             fresh == InitModel(sharded.tree, keys[2])
             fresh_opt == OptimizerInit(fresh)
         IN  /\ model_config' = cfg
             /\ np_state' = seed
             /\ key' = keys[1]
             /\ IF ~sharded.ok
                THEN /\ pc' = "fatal"
                     /\ UNCHANGED <<model, opt_state, first_step, itr>>
                ELSE IF store = {}
                THEN /\ model' = fresh /\ opt_state' = fresh_opt
                     /\ first_step' = 0 /\ itr' = 0 /\ pc' = "loop"
                ELSE LET snap == Restore(store, LatestStep(store))
                         m == TreeUnflatten(fresh.treedef, snap.model)
                         o == TreeUnflatten(fresh_opt.treedef, snap.opt_state)
                     IN  IF m.ok /\ o.ok
                         THEN /\ model' = m.tree /\ opt_state' = o.tree
                              /\ first_step' = ResumeStep(LatestStep(store))
                              /\ itr' = ResumeStep(LatestStep(store))
                              /\ pc' = "loop"
                         ELSE /\ pc' = "fatal"
                              /\ model' = fresh /\ opt_state' = fresh_opt
                              /\ UNCHANGED <<first_step, itr>>
    /\ UNCHANGED <<debug, store, postfix_values, events, ev, restarts>>
    /\ UNCHANGED <<shardVars, accumVars, schedVars>>

\* `for itr in pbar`: the next index, when there is one.
EnterIteration ==
    /\ pc = "loop" /\ itr < MaxSteps
    /\ pc' = IF ~debug /\ EvalDue(itr) THEN "eval" ELSE "train"
    /\ events' = <<>>
    /\ ev' = NoEval
    /\ UNCHANGED <<debug, model_config, key, model, opt_state, first_step, itr,
                   store, np_state, postfix_values, restarts>>
    /\ UNCHANGED <<shardVars, accumVars, schedVars>>

\* The range is exhausted: pbar.close(), writer.close().
LoopExit ==
    /\ pc = "loop" /\ itr >= MaxSteps
    /\ pc' = "done"
    /\ UNCHANGED <<debug, model_config, key, model, opt_state, first_step, itr,
                   store, np_state, postfix_values, events, ev, restarts>>
    /\ UNCHANGED <<shardVars, accumVars, schedVars>>

\* One pass of the loop of evaluate(model, data).
EvalSample ==
    /\ pc = "eval" /\ ~EvalLoopDone(ev.i)
    /\ LET r == EvalPass(model, Dataset(ev.data), np_state, ev.tot_loss)
       IN  /\ ev' = [ev EXCEPT !.i = @ + 1, !.tot_loss = r.tot_loss]
           /\ np_state' = r.np
    /\ UNCHANGED <<pc, debug, model_config, key, model, opt_state, first_step, itr,
                   store, postfix_values, events, restarts>>
    /\ UNCHANGED <<shardVars, accumVars, schedVars>>

\* evaluate(model, train_data) returns; evaluate(model, val_data) is called.
EvalTrainReturn ==
    /\ pc = "eval" /\ EvalLoopDone(ev.i) /\ ev.data = "train"
    /\ ev' = [data |-> "val", i |-> 0, tot_loss |-> Zero,
              train_loss |-> EvalResult(ev.tot_loss)]
    /\ events' = Append(events, "eval_train")
    /\ UNCHANGED <<pc, debug, model_config, key, model, opt_state, first_step, itr,
                   store, np_state, postfix_values, restarts>>
    /\ UNCHANGED <<shardVars, accumVars, schedVars>>

\* evaluate(model, val_data) returns; both losses are recorded.
EvalValReturn ==
    /\ pc = "eval" /\ EvalLoopDone(ev.i) /\ ev.data = "val"
    /\ postfix_values' = [postfix_values EXCEPT !.train_loss = ev.train_loss,
                                                !.val_loss = EvalResult(ev.tot_loss)]
    /\ ev' = NoEval
    /\ events' = Append(events, "eval_val")
    /\ pc' = "train"
    /\ UNCHANGED <<debug, model_config, key, model, opt_state, first_step, itr,
                   store, np_state, restarts>>
    /\ UNCHANGED <<shardVars, accumVars, schedVars>>

\* A forward pass over arrays whose shapes are not those the model's
\* structure declares may raise a shape error when it is first traced, in
\* evaluate() or in step(); whether it does depends on the shapes, so both
\* outcomes are possible.
ForwardShapeError ==
    /\ Misaligned(model)
    /\ pc = "train" \/ (pc = "eval" /\ ev.data = "train" /\ ev.i = 0)
    /\ pc' = "fatal"
    /\ UNCHANGED <<debug, model_config, key, model, opt_state, first_step, itr,
                   store, np_state, postfix_values, events, ev, restarts>>
    /\ UNCHANGED <<shardVars, accumVars, schedVars>>

\* The key split, get_batch and step().
TrainStep ==
    /\ pc = "train"
    /\ LET keys == Split(key)
           b == GetBatchG(TrainData, BlockSize, BatchSize, GAccumIters, np_state)
           r == Step(model, opt_state, b.x, b.y, keys[2], itr)
       IN  /\ key' = keys[1]
           /\ np_state' = b.np
           /\ model' = r.model /\ opt_state' = r.opt_state
           /\ postfix_values' = [postfix_values EXCEPT !.loss = r.loss]
    /\ events' = Append(events, "step")
    /\ pc' = "save"
    /\ UNCHANGED <<debug, model_config, first_step, itr, store, ev, restarts>>
    /\ UNCHANGED <<shardVars, accumVars, schedVars>>

\* `if not config.debug: mngr.save(itr, (leaves of model, leaves of opt_state))`
SaveCheckpoint ==
    /\ pc = "save"
    /\ IF debug THEN UNCHANGED <<store, events>>
       ELSE /\ store' = Save(store, itr, <<TreeLeaves(model), TreeLeaves(opt_state)>>)
            /\ events' = IF ShouldSave(store, itr) THEN Append(events, "save") ELSE events
    /\ pc' = "report"
    /\ UNCHANGED <<debug, model_config, key, model, opt_state, first_step, itr,
                   np_state, postfix_values, ev, restarts>>
    /\ UNCHANGED <<shardVars, accumVars, schedVars>>

\* postfix_values['lr'] = scheduler(opt_state[3].count)
ReportedLr(opt) == Scheduler(TrainSched, opt.count)

\* The progress report that ends the loop body; the loop moves on.
Report ==
    /\ pc = "report"
    /\ postfix_values' = [postfix_values EXCEPT !.lr = ReportedLr(opt_state)]
    /\ itr' = itr + 1
    /\ pc' = "loop"
    /\ UNCHANGED <<debug, model_config, key, model, opt_state, first_step,
                   store, np_state, events, ev, restarts>>
    /\ UNCHANGED <<shardVars, accumVars, schedVars>>

\* The process is interrupted (killed, or ended) and launched again: all of
\* its memory is lost, the checkpoint directory stays.
Interrupt ==
    /\ pc # "boot" /\ restarts < MaxRestarts
    /\ restarts' = restarts + 1
    /\ pc' = "boot" /\ model_config' = NoConfig /\ key' = PRNGKey0
    /\ model' = NoModel /\ opt_state' = NoOptState /\ first_step' = 0 /\ itr' = 0
    /\ np_state' = 0 /\ postfix_values' = NoPostfix /\ events' = <<>>
    /\ ev' = NoEval
    /\ UNCHANGED <<debug, store>>
    /\ UNCHANGED <<shardVars, accumVars, schedVars>>

Next ==
    \/ Startup \/ EnterIteration \/ LoopExit
    \/ EvalSample \/ EvalTrainReturn \/ EvalValReturn \/ ForwardShapeError
    \/ TrainStep \/ SaveCheckpoint \/ Report \/ Interrupt

Spec == Init /\ [][Next]_vars

-----------------------------------------------------------------------------
(* shard_gpt on arbitrary trees, called from init_sharded_model and from   *)
(* step().                                                                 *)

\* The layers a tree may hold: Linear and LayerNorm with or without a bias,
\* Embedding (a weight only), and a layer of another class.
LayerKinds ==
    {Layer(cls, <<1>>, b) : cls \in {"Linear", "LayerNorm", "Other"}, b \in BOOLEAN}
    \cup {Layer("Embedding", <<1>>, FALSE)}

Trees == UNION {[1..n -> LayerKinds] : n \in 1..MaxTreeLayers}

InitShard ==
    /\ TrainIdle /\ AccumIdle /\ SchedIdle
    /\ sh_pc = "call" /\ sh_tree \in Trees /\ sh_flag \in BOOLEAN
    /\ sh_caller \in {"init_sharded_model", "step"} /\ sh_out = <<>>

\* shard_gpt returns the tree: to the optimizer update in step(), to the
\* training loop from init_sharded_model.
ShardGptReturn ==
    /\ sh_pc = "call" /\ ShardGpt(sh_tree, sh_flag).ok
    /\ sh_out' = ShardGpt(sh_tree, sh_flag).tree
    /\ sh_pc' = IF sh_caller = "step" THEN "optimizer_update" ELSE "train_loop"
    /\ UNCHANGED <<sh_tree, sh_flag, sh_caller, trainVars, accumVars, schedVars>>

\* 'Some parameters are not being sharded!'
ShardGptAssertionError ==
    /\ sh_pc = "call" /\ ~ShardGpt(sh_tree, sh_flag).ok
    /\ sh_pc' = "fatal"
    /\ UNCHANGED <<sh_tree, sh_flag, sh_caller, sh_out, trainVars, accumVars, schedVars>>

NextShard == ShardGptReturn \/ ShardGptAssertionError

SpecShard == InitShard /\ [][NextShard]_vars

-----------------------------------------------------------------------------
(* The accumulation scan of step(), one microbatch at a time.              *)

\* The window starts the examples of a batch are drawn from.
ExampleIx == {0, 2}

AccumParams == [init |-> <<1>>, updates |-> <<>>]

\* The (G, B, block_size) arrays x and y of the batch with window starts ix.
BatchX(ix) == [g \in DOMAIN ix |-> [b \in DOMAIN ix[g] |-> Window(TrainData, ix[g][b], 0, BlockSize)]]
BatchY(ix) == [g \in DOMAIN ix |-> [b \in DOMAIN ix[g] |-> Window(TrainData, ix[g][b], 1, BlockSize)]]

InitAccum ==
    /\ TrainIdle /\ ShardIdle /\ SchedIdle
    /\ ac_pc = "scan" /\ ac_G \in 1..MaxG /\ ac_B \in 1..MaxB
    /\ ac_x \in [1..ac_G -> [1..ac_B -> ExampleIx]]
    /\ ac_i = 0 /\ ac_carry = InitLossGrad /\ ac_order = <<>> /\ ac_out = InitLossGrad

\* scan calls accum_loss_grad on the next microbatch.
AccumScanStep ==
    /\ ac_pc = "scan" /\ ac_i < ac_G
    /\ ac_carry' = AccumLossGrad(ac_carry, AccumParams,
                                 BatchX(ac_x)[ac_i + 1], BatchY(ac_x)[ac_i + 1])
    /\ ac_i' = ac_i + 1
    /\ ac_order' = Append(ac_order, ac_i + 1)
    /\ UNCHANGED <<ac_pc, ac_G, ac_B, ac_x, ac_out, trainVars, shardVars, schedVars>>

\* The scan is over: loss and grad are divided by G.
AccumDivide ==
    /\ ac_pc = "scan" /\ ac_i >= ac_G
    /\ ac_out' = DivideByG(ac_carry, ac_G)
    /\ ac_pc' = "done"
    /\ UNCHANGED <<ac_G, ac_B, ac_x, ac_i, ac_carry, ac_order, trainVars, shardVars, schedVars>>

NextAccum == AccumScanStep \/ AccumDivide

SpecAccum == InitAccum /\ [][NextAccum]_vars

-----------------------------------------------------------------------------
(* The schedule built in train(), followed step by step.                   *)

SchedConfigs ==
    {[warmup_steps |-> w, lr_decay_steps |-> d, learning_rate |-> p, min_lr |-> m] :
        w \in 0..MaxWarmup, d \in 1..MaxDecay, p \in 1..MaxPeak, m \in 0..MaxPeak}

InitSched ==
    /\ TrainIdle /\ ShardIdle /\ AccumIdle
    /\ sc_cfg \in {c \in SchedConfigs : c.min_lr <= c.learning_rate}
    /\ sc_step = -1 /\ sc_lr = Zero /\ sc_prev = Zero

\* optax.warmup_cosine_decay_schedule(...) returns the schedule; step 0.
SchedBuild ==
    /\ sc_step = -1 /\ SchedulerBuilt(sc_cfg)
    /\ sc_step' = 0
    /\ sc_lr' = Scheduler(sc_cfg, 0)
    /\ UNCHANGED <<sc_cfg, sc_prev, trainVars, shardVars, accumVars>>

\* The next step of the schedule.
SchedTick ==
    /\ sc_step >= 0
    /\ sc_step < sc_cfg.warmup_steps + sc_cfg.lr_decay_steps + SchedTail
    /\ sc_step' = sc_step + 1
    /\ sc_prev' = sc_lr
    /\ sc_lr' = Scheduler(sc_cfg, sc_step + 1)
    /\ UNCHANGED <<sc_cfg, trainVars, shardVars, accumVars>>

NextSched == SchedBuild \/ SchedTick

SpecSched == InitSched /\ [][NextSched]_vars

-----------------------------------------------------------------------------
(* Properties of train(), checked under Spec.                              *)

\* The snapshot with the greatest step of a non-empty checkpoint directory.
Newest(st) == CHOOSE c \in st : \A d \in st : d.step <= c.step

\* The state right after startup: the loop is about to take its first index.
AtFirstIteration == pc = "loop" /\ itr = first_step

\* C1: on startup, after any interruptions and restarts, a checkpoint
\* directory holding a snapshot makes the first iteration index the latest
\* checkpointed step + 1 and the model and optimizer state entering it exactly
\* the stored leaves; an empty directory makes the first index 0 and the model
\* and optimizer state the freshly initialized ones.
C1_StartupResumesLatest ==
    AtFirstIteration =>
        IF store = {}
        THEN /\ first_step = 0
             /\ model.params = [init |-> <<1>>, updates |-> <<>>]
             /\ model.shapes = ShapesOf(GPT(model_config))
             /\ opt_state.count = 0 /\ opt_state.adam_count = 0
             /\ opt_state.moments = <<>>
        ELSE /\ first_step = Newest(store).step + 1
             /\ [shapes |-> model.shapes, params |-> model.params] = Newest(store).model
             /\ [f \in {"shapes", "adam_count", "count", "moments"} |-> opt_state[f]]
                    = Newest(store).opt_state

\* C1 witness: a second restart resumes from a stored snapshot.
C1_Witness ==
    /\ AtFirstIteration /\ restarts = 2 /\ store # {}
    /\ first_step = 3 /\ Len(model.params.updates) = 3

\* The carried key of an uninterrupted run when iteration s begins, and the
\* sub-key that run passes to step() in iteration s.
RECURSIVE CarriedKey(_)
CarriedKey(s) == IF s = 0 THEN Split(PRNGKey0)[1] ELSE Split(CarriedKey(s - 1))[1]
UninterruptedSubkey(s) == Split(CarriedKey(s))[2]

\* C2: the sub-key passed to step() at iteration s, in a run that was
\* interrupted and restored, is the sub-key an uninterrupted run passes at
\* iteration s; no two iterations in the lineage of a model consume the same
\* sub-key.
C2_SubkeysReconstructed ==
    LET u == model.params.updates
    IN  /\ \A k \in DOMAIN u : u[k].key = UninterruptedSubkey(u[k].itr)
        /\ \A j, k \in DOMAIN u : u[j].itr # u[k].itr => u[j].key # u[k].key

\* C3: a restore of leaves that do not match the freshly initialized tree
\* (in count or in shape) is fatal: the loop is never entered, and restore
\* never completes, with stored leaves sitting where the tree declares
\* another shape.
C3_MismatchedRestoreIsFatal ==
    pc \in {"loop", "eval", "train", "save", "report", "done"} => ~Misaligned(model)

\* C4: with debug off, an iteration evaluates on the train and then the
\* validation dataset iff its index is a multiple of eval_interval, saves a
\* checkpoint keyed by its index in exactly those iterations, and does so in
\* the order evaluation, training step, save.
C4_EvalAndSaveCadence ==
    (pc = "report" /\ ~debug) =>
        /\ events = IF itr % EvalInterval = 0
                    THEN <<"eval_train", "eval_val", "step", "save">>
                    ELSE <<"step">>
        /\ (itr % EvalInterval = 0) <=> (\E c \in store : c.step = itr)
        /\ \A c \in store : c.step = itr =>
               c.model = [shapes |-> model.shapes, params |-> model.params]

\* C4 witness: an iteration on the interval, past the first, ends after a save.
C4_Witness ==
    /\ pc = "report" /\ ~debug /\ itr = EvalInterval /\ restarts > 0
    /\ \E c \in store : c.step = itr

\* a = b / k for rationals a, b and an integer k > 0.
IsQuotient(a, b, k) == a[1] * b[2] * k = b[1] * a[2]

\* C8: evaluate(model, data) samples exactly 200 batches, one per pass,
\* starting from a zero total, and returns the sum of their losses divided by
\* 200; no step of it changes the model, the optimizer state (its counters
\* included), the key of the training steps or the checkpoint directory.
C8_EvaluateIsPure ==
    [][ (pc = "eval" /\ pc' \in {"eval", "train"}) =>
          /\ model' = model /\ opt_state' = opt_state /\ key' = key /\ store' = store
          /\ (ev.i = 0 => ev.tot_loss = Zero)
          /\ (ev'.data = ev.data /\ pc' = "eval") =>
                LET b == GetBatch(Dataset(ev.data), BlockSize, BatchSize, np_state)
                IN  /\ ev'.i = ev.i + 1 /\ ev.i < 200
                    /\ ev'.tot_loss = RatAdd(ev.tot_loss, LossFn(model.params, b.x, b.y))
                    /\ np_state' = b.np
          /\ (ev'.data # ev.data /\ pc' = "eval") =>
                /\ ev.i = 200 /\ np_state' = np_state
                /\ IsQuotient(ev'.train_loss, ev.tot_loss, 200)
          /\ (pc' = "train") =>
                /\ ev.i = 200 /\ np_state' = np_state
                /\ IsQuotient(postfix_values'.val_loss, ev.tot_loss, 200)
                /\ postfix_values'.train_loss = ev.train_loss
      ]_vars

\* C8 witness: both evaluations of an iteration have returned.
C8_Witness ==
    /\ pc = "train" /\ events = <<"eval_train", "eval_val">>
    /\ postfix_values.train_loss # <<>> /\ postfix_values.val_loss # <<>>
    /\ Len(model.params.updates) > 0

\* C9: when an iteration itr begins, in a fresh run and after any restores,
\* the optimizer's step counter is itr and the model has received exactly the
\* updates of iterations 0 .. itr-1, each once and in order; the snapshot
\* keyed s holds the state after the update of step s.
C9_CounterEqualsIteration ==
    /\ pc \in {"loop", "eval", "train"} =>
          /\ opt_state.count = itr
          /\ Len(model.params.updates) = itr
          /\ \A k \in 1..itr : model.params.updates[k].itr = k - 1
    /\ \A c \in store : /\ c.opt_state.count = c.step + 1
                        /\ Len(c.model.params.updates) = c.step + 1

\* C9 witness: an iteration begins after a restore.
C9_Witness ==
    /\ pc = "train" /\ restarts > 0 /\ first_step > 0 /\ itr > first_step
    /\ opt_state.count = itr

\* C10: the learning rate reported in an iteration is the schedule value the
\* optimizer scaled that iteration's update by.
C10_ReportedLrIsUsedLr ==
    (pc = "loop" /\ postfix_values.lr # <<>>) =>
        postfix_values.lr = Last(model.params.updates).lr

-----------------------------------------------------------------------------
(* Properties of shard_gpt, checked under SpecShard.                       *)

\* The array leaves of a tree that carry no placement: weights no sharding
\* was put on, and biases.
UnplacedLeaves(tree) ==
    {<<i, "weight">> : i \in {j \in DOMAIN tree : tree[j].wspec = Unplaced}}
    \cup {<<i, "bias">> : i \in {j \in DOMAIN tree : tree[j].bias}}

\* An array leaf of a class shard_gpt has no placement for.
HasOtherLeaf(tree) ==
    \E i \in DOMAIN tree : tree[i].bias \/ tree[i].cls \notin {"Linear", "Embedding", "LayerNorm"}

\* C5: for either value of shard_model, shard_gpt returns a tree only if the
\* leaves it placed (Linear/Embedding and LayerNorm weights) are all the array
\* leaves of the tree; a tree with an array leaf of another class, such as a
\* bias, makes it raise, so no tree with an unplaced array leaf reaches the
\* optimizer update or the training loop.
C5_OnlyFullyPlacedTreesReturned ==
    /\ sh_pc \in {"optimizer_update", "train_loop"} =>
          /\ UnplacedLeaves(sh_out) = {}
          /\ Len(sh_out) = Len(sh_tree)
          /\ \A i \in DOMAIN sh_out :
                sh_out[i].wspec = IF sh_out[i].cls = "LayerNorm"
                                  THEN (IF sh_flag THEN <<"data">> ELSE <<None>>)
                                  ELSE (IF sh_flag THEN <<None, "data">> ELSE <<None, None>>)
    /\ (sh_pc # "idle" /\ HasOtherLeaf(sh_tree)) => sh_pc \in {"call", "fatal"}

\* C5 witness: a tree with a bias made shard_gpt raise.
C5_Witness ==
    /\ sh_pc = "fatal" /\ sh_caller = "step"
    /\ \E i \in DOMAIN sh_tree : sh_tree[i].cls = "Linear" /\ sh_tree[i].bias
    /\ \A i \in DOMAIN sh_tree : sh_tree[i].cls # "Other"

-----------------------------------------------------------------------------
(* Properties of the accumulation, checked under SpecAccum.                *)

\* The (G, B, ...) array a flattened to (G * B, ...), microbatch after microbatch.
RECURSIVE Concat(_)
Concat(a) == IF a = <<>> THEN <<>> ELSE Head(a) \o Concat(Tail(a))

\* C6: for G >= 1 microbatches of equal size B, the accumulation takes the
\* microbatches in index order, each once, sums from zero and divides by G;
\* its loss and every gradient leaf equal the mean loss and gradient of the
\* concatenated batch of G * B examples computed in one pass.
C6_AccumulationEqualsFullBatch ==
    /\ ac_pc = "scan" => ac_order = [k \in 1..ac_i |-> k]
    /\ (ac_pc = "scan" /\ ac_i = 0) => ac_carry = [loss |-> <<0, 1>>,
                                                  grad |-> [i \in 1..NumGradLeaves |-> <<0, 1>>]]
    /\ ac_pc = "done" =>
          LET x == Concat(BatchX(ac_x))
              y == Concat(BatchY(ac_x))
          IN  /\ ac_order = [k \in 1..ac_G |-> k]
              /\ Len(x) = ac_G * ac_B
              /\ ac_out.loss = LossFn(AccumParams, x, y)
              /\ \A i \in 1..NumGradLeaves : ac_out.grad[i] = GradFn(AccumParams, x, y)[i]

\* C6 witness: two microbatches with different losses were accumulated.
C6_Witness ==
    /\ ac_pc = "done" /\ ac_G = 2 /\ ac_B = 2
    /\ LossFn(AccumParams, BatchX(ac_x)[1], BatchY(ac_x)[1])
          # LossFn(AccumParams, BatchX(ac_x)[2], BatchY(ac_x)[2])

-----------------------------------------------------------------------------
(* Properties of the schedule, checked under SpecSched.                    *)

\* The parts of the schedule claim that do not depend on the length of the
\* decay: 0 at step 0, the peak at warmup_steps, min_lr from step
\* warmup_steps + lr_decay_steps on, non-decreasing up to warmup_steps and
\* non-increasing from there.
ScheduleShape ==
    LET W == sc_cfg.warmup_steps
        D == sc_cfg.lr_decay_steps
    IN  /\ sc_step = 0 => sc_lr = <<0, 1>>
        /\ sc_step = W => sc_lr = <<sc_cfg.learning_rate, 1>>
        /\ sc_step >= W + D => sc_lr = Rat(sc_cfg.min_lr, 1)
        /\ (1 <= sc_step /\ sc_step <= W) => RatLeq(sc_prev, sc_lr)
        /\ sc_step > W => RatLeq(sc_lr, sc_prev)

\* C7 as stated: the decay from the peak takes lr_decay_steps iterations
\* after warmup, so that min_lr is reached at warmup_steps + lr_decay_steps
\* and not before.
C7_DecayOverLrDecaySteps ==
    (sc_step >= 0 /\ sc_cfg.warmup_steps >= 1) =>
        /\ ScheduleShape
        /\ (/\ sc_cfg.min_lr < sc_cfg.learning_rate
            /\ sc_cfg.warmup_steps <= sc_step
            /\ sc_step < sc_cfg.warmup_steps + sc_cfg.lr_decay_steps)
              => RatLt(Rat(sc_cfg.min_lr, 1), sc_lr)

\* C7 as amended: lr_decay_steps counts from step 0, so the decay from the
\* peak takes lr_decay_steps - warmup_steps iterations after warmup; min_lr
\* is reached at step lr_decay_steps, not before, and held from there on.
C7_DecayEndsAtLrDecaySteps ==
    (sc_step >= 0 /\ sc_cfg.warmup_steps >= 1) =>
        /\ ScheduleShape
        /\ sc_step >= sc_cfg.lr_decay_steps => sc_lr = Rat(sc_cfg.min_lr, 1)
        /\ (/\ sc_cfg.min_lr < sc_cfg.learning_rate
            /\ sc_cfg.warmup_steps <= sc_step
            /\ sc_step < sc_cfg.lr_decay_steps)
              => RatLt(Rat(sc_cfg.min_lr, 1), sc_lr)

\* C7 witness: the schedule sits at min_lr at step lr_decay_steps, before
\* warmup_steps + lr_decay_steps, having decayed from a higher peak.
C7_Witness ==
    /\ sc_cfg.warmup_steps = 2 /\ sc_cfg.lr_decay_steps = 4
    /\ sc_cfg.min_lr = 1 /\ sc_cfg.learning_rate = 3
    /\ sc_step = 4 /\ sc_lr = <<1, 1>> /\ RatLt(sc_lr, sc_prev)

=============================================================================
